---- MODULE Spec2Model ----
(***************************************************************************)
(* photosort.py: an interactive photo triage tool.  The model covers the   *)
(* command line and pre-flight checks of __main__, the construction of the *)
(* Sorter, its event loop (Sorter.go) with one action per kind of event,   *)
(* the render step's lazy image cache, and the three exit protocols        *)
(* (bailout, done, exitlist) acting on a small filesystem.                 *)
(*                                                                         *)
(* File names are the numbers 1..MaxFiles: their numeric order stands for  *)
(* the lexicographic order list.sort() gives the names (1 = "a.jpg",       *)
(* 2 = "b.jpg", ...).  A path is a pair <<directory, filename>>.           *)
(***************************************************************************)
EXTENDS Integers, Sequences, FiniteSets, TLC

\* ------------------------------------------------------------- bounds
MaxFiles == 2
MaxDests == 2
MaxDim == 6
MaxLabelDests == 40

\* ---------------------------------------------------------- universe
FileNames == 1..MaxFiles
SrcDir == "src"
DestNames == {"Keep", "Trash"}
Dirs == {SrcDir} \cup DestNames
None == "None"
NotExited == -1

VARIABLES
  argv,         \* sys.argv[1:], the arguments after the program name
  fs,           \* the filesystem: directory name -> its state
  fs0,          \* the filesystem as it was at startup (never changes)
  images,       \* the files of the source directory that pygame can decode
  pc,           \* "start" | "running" | "exited"
  displayInit,  \* pygame.init() / set_mode() has run
  filelist,     \* Sorter.filelist
  destmap,      \* Sorter.destmap: filename -> destination number
  destinations, \* Sorter.destinations: 0 -> None, i -> i-th destination
  photos,       \* the keys of Sorter.photos (and of Sorter.metadata)
  verbose,      \* Sorter.verbose
  crosshair,    \* Sorter.crosshair
  current,      \* Sorter.current
  stdout,       \* the lines printed so far
  exitvia,      \* what ended the process
  exitcode,     \* the process exit status, NotExited while it runs
  error,        \* the uncaught exception that ended the process, if any
  applied,      \* history: how often switchdest was applied to each file
  tag0,         \* history: each file's tag before the first application
  decodes,      \* history: how often pygame.image.load ran on each file
  rendered,     \* history: the files Sorter.display has drawn a frame of
  surf,         \* the size <<sx, sy>> of the surface crosshair() draws on
  lines,        \* the pixel rows and columns crosshair() has drawn
  label         \* the tag label Sorter.display has drawn

vars == <<argv, fs, fs0, images, pc, displayInit, filelist, destmap,
          destinations, photos, verbose, crosshair, current, stdout,
          exitvia, exitcode, error, applied, tag0, decodes, rendered, surf,
          lines, label>>

session == <<filelist, destmap, destinations, photos, verbose, crosshair,
             current, decodes, rendered>>
history == <<applied, tag0>>

\* The contents of the frame.  The session specification does not follow
\* them; the crosshair and the tag label have specifications of their own.
canvas == <<surf, lines, label>>
NoLines == [ys |-> {}, xs |-> {}, rows |-> {}, cols |-> {}, color |-> <<>>]
NoLabel == [text |-> "", color |-> <<>>]

\* ------------------------------------------------------- filesystem
NoEntries == [f \in FileNames |-> "none"]

\* A directory state.  kind: "absent" | "file" | "dir"; access: the result
\* of os.access(d, W_OK | X_OK); parentOK: whether os.mkdir(d) can succeed
\* (the parent exists and is writable); entries: filename -> the directory
\* the file was in at startup ("none": no such entry).
Absent(p) ==
  [kind |-> "absent", access |-> FALSE, parentOK |-> p, entries |-> NoEntries]

NotDir ==
  [kind |-> "file", access |-> TRUE, parentOK |-> TRUE, entries |-> NoEntries]

Dir(acc, own, d) ==
  [kind |-> "dir", access |-> acc, parentOK |-> TRUE,
   entries |-> [f \in FileNames |-> IF f \in own THEN d ELSE "none"]]

DestKinds == {"absent", "noparent", "file", "readonly", "dir"}

DestState(k, own, d) ==
  CASE k = "absent" -> Absent(TRUE)
    [] k = "noparent" -> Absent(FALSE)
    [] k = "file" -> NotDir
    [] k = "readonly" -> Dir(FALSE, {}, d)
    [] k = "dir" -> Dir(TRUE, own, d)

\* os.path.exists(d), os.path.isdir(d), os.access(d, W_OK | X_OK)
exists(f, d) == f[d].kind # "absent"
isdir(f, d) == f[d].kind = "dir"
access(f, d) == f[d].access

\* os.path.exists(os.path.join(d, fname))
exists_file(f, d, fname) == isdir(f, d) /\ f[d].entries[fname] # "none"

\* os.listdir(d), as a set
listdir(f, d) == {n \in FileNames : f[d].entries[n] # "none"}

\* ------------------------------------------------------------ errors
NoPath == <<"", 0>>
NoError == [kind |-> "none", path |-> NoPath]
Raise(k, p) == [kind |-> k, path |-> p]

\* list.sort(): the ascending sequence of a set of names
RECURSIVE sort(_)
sort(S) ==
  IF S = {} THEN <<>>
  ELSE LET m == CHOOSE x \in S : \A y \in S : x <= y
       IN <<m>> \o sort(S \ {m})

\* ------------------------------------------------------ initial states
\* The command lines: no argument at all, the source alone, or the source
\* and 1..MaxDests destinations (repeats allowed).  The two destination
\* names are interchangeable, so the first one given is always "Keep".
DestSeqs == UNION {[1..n -> DestNames] : n \in 0..(MaxDests - 1)}
ArgvSet ==
  {<<>>, <<SrcDir>>} \cup {<<SrcDir, "Keep">> \o d : d \in DestSeqs}

SrcStates == {Absent(TRUE)} \cup {Dir(TRUE, 1..n, SrcDir) : n \in 0..MaxFiles}

\* The files a destination directory may hold at startup: none or one
StraySets == {{}} \cup {{f} : f \in FileNames}

Named(a) == {a[i] : i \in 2..Len(a)}

\* The state when the interpreter reaches line 252: any command line over
\* the directory names, any source directory holding files 1..n (or no
\* source directory), any state of the named destinations with at most
\* one file already in each, and at most one undecodable file.
Init ==
  \E a \in ArgvSet, s \in SrcStates, kinds \in [DestNames -> DestKinds],
     own \in [DestNames -> StraySets] :
    \E bad \in {{}} \cup {{f} : f \in listdir([x \in {SrcDir} |-> s], SrcDir)} :
      /\ \A d \in DestNames : own[d] # {} => kinds[d] = "dir"
      /\ \A d \in DestNames \ Named(a) : kinds[d] = "absent"
      /\ argv = a
      /\ fs = [d \in Dirs |-> IF d = SrcDir THEN s
                              ELSE DestState(kinds[d], own[d], d)]
      /\ fs0 = fs
      /\ images = listdir([x \in {SrcDir} |-> s], SrcDir) \ bad
      /\ pc = "start"
      /\ displayInit = FALSE
      /\ filelist = <<>>
      /\ destmap = <<>>
      /\ destinations = <<>>
      /\ photos = {}
      /\ verbose = 0
      /\ crosshair = 0
      /\ current = 0
      /\ stdout = <<>>
      /\ exitvia = "none"
      /\ exitcode = NotExited
      /\ error = NoError
      /\ applied = <<>>
      /\ tag0 = <<>>
      /\ decodes = <<>>
      /\ rendered = {}
      /\ surf = <<0, 0>>
      /\ lines = NoLines
      /\ label = NoLabel

\* ------------------------------------------------------- process exit
\* sys.exit(code) reached through `via`
Exit(via, code) ==
  /\ pc' = "exited"
  /\ exitvia' = via
  /\ exitcode' = code
  /\ error' = NoError

\* an exception nobody catches: traceback on stderr, exit status 1
Uncaught(e) ==
  /\ pc' = "exited"
  /\ exitvia' = "exception"
  /\ exitcode' = 1
  /\ error' = e

\* ------------------------------------------------------------ __main__
\* the pre-flight loop without the os.access test
RECURSIVE preflight_noaccess(_, _, _)
preflight_noaccess(f, destdirs, i) ==
  IF i > Len(destdirs) THEN NoError
  ELSE LET dest == destdirs[i]
       IN IF exists(f, dest) /\ ~isdir(f, dest)
            THEN Raise("OSError: Not a directory", <<dest, 0>>)
          ELSE preflight_noaccess(f, destdirs, i + 1)

\* The pre-flight loop over destdirs: the first destination that exists
\* and is not a directory, or is not writable and traversable, raises.
RECURSIVE preflight(_, _, _)
preflight(f, destdirs, i) ==
  IF i > Len(destdirs) THEN NoError
  ELSE LET dest == destdirs[i]
       IN IF exists(f, dest) /\ ~isdir(f, dest)
            THEN Raise("OSError: Not a directory", <<dest, 0>>)
          ELSE IF exists(f, dest) /\ ~access(f, dest)
            THEN Raise("OSError: Not writeable", <<dest, 0>>)
          ELSE preflight(f, destdirs, i + 1)

\* [None] + destinations
MakeDestinations(destdirs) ==
  [i \in 0..Len(destdirs) |-> IF i = 0 THEN None ELSE destdirs[i]]

\* dict((fn, 0) for fn in self.filelist)
MakeDestmap(files) == [fn \in {files[i] : i \in 1..Len(files)} |-> 0]

Main ==
  /\ pc = "start"
  /\ IF Len(argv) < 1
       THEN \* srcdir = sys.argv[1] raises IndexError: usage
            /\ stdout' = Append(stdout, <<"USAGE", 0>>)
            /\ Exit("usage", 1)
            /\ UNCHANGED <<displayInit, session>>
     ELSE LET srcdir == argv[1]
              destdirs == SubSeq(argv, 2, Len(argv))
              pre == preflight(fs, destdirs, 1)
          IN IF pre # NoError
               THEN /\ Uncaught(pre)
                    /\ UNCHANGED <<displayInit, session, stdout>>
             ELSE IF ~isdir(fs, srcdir)
               THEN \* pygame.init() ran; os.listdir raises in __init__
                    /\ displayInit' = TRUE
                    /\ Uncaught(Raise("OSError: listdir", <<srcdir, 0>>))
                    /\ UNCHANGED <<session, stdout>>
             ELSE /\ displayInit' = TRUE
                  /\ filelist' = sort(listdir(fs, srcdir))
                  /\ photos' = {}
                  /\ decodes' = MakeDestmap(filelist')
                  /\ rendered' = {}
                  /\ destmap' = MakeDestmap(filelist')
                  /\ destinations' = MakeDestinations(destdirs)
                  /\ verbose' = 0
                  /\ crosshair' = 0
                  /\ current' = 0
                  /\ pc' = "running"
                  /\ UNCHANGED <<stdout, exitvia, exitcode, error>>
  /\ UNCHANGED <<argv, fs, fs0, images, history, canvas>>

\* -------------------------------------------------------------- Sorter
\* self.directory
directory == argv[1]

\* len(self.destinations)
len_destinations(dests) == Cardinality(DOMAIN dests)

\* load without the test `fname not in self.photos`: decodes on every
\* request
load_always(ph, fname) ==
  IF fname \in images
    THEN [photos |-> ph \cup {fname}, err |-> NoError, decoded |-> TRUE]
  ELSE [photos |-> ph, err |-> Raise("pygame.error", <<SrcDir, fname>>),
        decoded |-> TRUE]

\* load that swallows the decoding error and caches a placeholder
load_placeholder(ph, fname) ==
  IF fname \in ph THEN [photos |-> ph, err |-> NoError, decoded |-> FALSE]
  ELSE [photos |-> ph \cup {fname}, err |-> NoError, decoded |-> TRUE]

\* Sorter.__getitem__ / Sorter.load: the cache after asking for fname.
\* A file already cached is not decoded again; a file pygame cannot decode
\* raises pygame.error and leaves the cache as it was.
\* `decoded` tells whether pygame.image.load was called.
load(ph, fname) ==
  IF fname \in ph THEN [photos |-> ph, err |-> NoError, decoded |-> FALSE]
  ELSE IF fname \in images
    THEN [photos |-> ph \cup {fname}, err |-> NoError, decoded |-> TRUE]
  ELSE [photos |-> ph, err |-> Raise("pygame.error", <<SrcDir, fname>>),
        decoded |-> TRUE]

\* self.display(self.filelist[self.current]): indexing an empty filelist
\* raises IndexError before display is entered.
display(ph, cur) ==
  IF cur >= Len(filelist)
    THEN [photos |-> ph, err |-> Raise("IndexError", NoPath),
          decoded |-> FALSE]
  ELSE load(ph, filelist[cur + 1])

\* The end of one iteration of the loop of Sorter.go: render the file at
\* the cursor; an exception of the render ends the process.
Render(cur) ==
  LET r == display(photos, cur)
  IN /\ photos' = r.photos
     /\ decodes' = IF r.decoded
                      THEN [decodes EXCEPT ![filelist[cur + 1]] = @ + 1]
                    ELSE decodes
     /\ IF r.err = NoError
          THEN /\ rendered' = rendered \cup {filelist[cur + 1]}
               /\ UNCHANGED <<pc, exitvia, exitcode, error>>
        ELSE /\ rendered' = rendered
             /\ Uncaught(r.err)

\* switchdest with the modulus off by one
switchdest_offbyone(dm, dests, fname) ==
  [dm EXCEPT ![fname] = (dm[fname] + 1) % (len_destinations(dests) + 1)]

\* switchdest that forgets to wrap around
switchdest_nomod(dm, dests, fname) ==
  [dm EXCEPT ![fname] = dm[fname] + 1]

\* Sorter.switchdest: the tag map after advancing fname
switchdest(dm, dests, fname) ==
  [dm EXCEPT ![fname] = (dm[fname] + 1) % len_destinations(dests)]

\* os.mkdir(d): fails unless the parent exists and is writable
mkdir(f, d) ==
  IF f[d].parentOK
    THEN [fs |-> [f EXCEPT ![d] = Dir(TRUE, {}, d)], err |-> NoError]
  ELSE [fs |-> f, err |-> Raise("OSError: mkdir", <<d, 0>>)]

\* os.rename(os.path.join(srcdir, fname), os.path.join(newdir, fname))
rename(f, srcdir, fname, newdir) ==
  IF ~isdir(f, newdir) \/ ~access(f, newdir) \/ ~exists_file(f, srcdir, fname)
    THEN [fs |-> f, err |-> Raise("OSError: rename", <<newdir, fname>>)]
  ELSE [fs |-> [f EXCEPT ![newdir].entries[fname] = f[srcdir].entries[fname],
                         ![srcdir].entries[fname] = "none"],
        err |-> NoError]

\* done's loop body without the os.path.exists(newname) test: the rename
\* replaces whatever is at the destination path, as os.rename does
done_file_overwrite(st, fname) ==
  IF destmap[fname] # 0
    THEN LET newdir == destinations[destmap[fname]]
             made == IF ~exists(st.fs, newdir) THEN mkdir(st.fs, newdir)
                     ELSE st
         IN IF made.err # NoError THEN made
            ELSE rename(made.fs, directory, fname, newdir)
  ELSE st

\* done's loop body without the test of the tag: an untagged file goes to
\* the first destination
done_file_all(st, fname) ==
  LET tag == IF destmap[fname] # 0 \/ len_destinations(destinations) = 1
               THEN destmap[fname] ELSE 1
  IN IF tag # 0
       THEN LET newdir == destinations[tag]
                made == IF ~exists(st.fs, newdir) THEN mkdir(st.fs, newdir)
                        ELSE st
            IN IF made.err # NoError THEN made
               ELSE IF exists_file(made.fs, newdir, fname)
                 THEN [fs |-> made.fs,
                       err |-> Raise("OSError: Avoided trashing file",
                                     <<newdir, fname>>)]
               ELSE rename(made.fs, directory, fname, newdir)
     ELSE st

\* The body of the loop of Sorter.done for one file
done_file(st, fname) ==
  IF destmap[fname] # 0
    THEN LET newdir == destinations[destmap[fname]]
             made == IF ~exists(st.fs, newdir) THEN mkdir(st.fs, newdir)
                     ELSE st
         IN IF made.err # NoError THEN made
            ELSE IF exists_file(made.fs, newdir, fname)
              THEN [fs |-> made.fs,
                    err |-> Raise("OSError: Avoided trashing file",
                                  <<newdir, fname>>)]
            ELSE rename(made.fs, directory, fname, newdir)
  ELSE st

\* done's loop going on after a failure and reporting the first one at
\* the end
RECURSIVE done_loop_continue(_, _)
done_loop_continue(st, i) ==
  IF i > Len(filelist) THEN st
  ELSE LET r == done_file([fs |-> st.fs, err |-> NoError], filelist[i])
       IN done_loop_continue(
            [fs |-> r.fs, err |-> IF st.err # NoError THEN st.err ELSE r.err],
            i + 1)

\* for fname in self.filelist: ... ; the raise leaves the loop
RECURSIVE done_loop(_, _)
done_loop(st, i) ==
  IF i > Len(filelist) \/ st.err # NoError THEN st
  ELSE done_loop(done_file(st, filelist[i]), i + 1)

\* Sorter.done
done(via) ==
  LET r == done_loop([fs |-> fs, err |-> NoError], 1)
  IN /\ fs' = r.fs
     /\ IF r.err = NoError THEN Exit(via, 0) ELSE Uncaught(r.err)
     /\ UNCHANGED <<stdout, session>>

\* exitlist's loop body without the test of the tag
list_file_all(fname) == <<<<destinations[destmap[fname]], fname>>>>

\* The body of the loop of Sorter.exitlist for one file: the lines printed
list_file(fname) ==
  IF destmap[fname] # 0
    THEN <<<<destinations[destmap[fname]], fname>>>>
  ELSE <<>>

RECURSIVE list_loop(_)
list_loop(i) ==
  IF i > Len(filelist) THEN <<>>
  ELSE list_file(filelist[i]) \o list_loop(i + 1)

\* Sorter.exitlist
exitlist(via) ==
  /\ stdout' = stdout \o list_loop(1)
  /\ Exit(via, 0)
  /\ UNCHANGED <<fs, session>>

\* bailout that saves before it exits
bailout_saves(via) ==
  LET r == done_loop([fs |-> fs, err |-> NoError], 1)
  IN /\ fs' = r.fs
     /\ Exit(via, 1)
     /\ UNCHANGED <<stdout, session>>

\* bailout with the success status
bailout_zero(via) ==
  /\ Exit(via, 0)
  /\ UNCHANGED <<fs, stdout, session>>

\* Sorter.bailout
bailout(via) ==
  /\ Exit(via, 1)
  /\ UNCHANGED <<fs, stdout, session>>

\* ----------------------------------------------------- Sorter.go events
Frame == <<argv, fs0, images, displayInit, history, canvas>>

\* pygame.QUIT: sys.exit()
Quit ==
  /\ pc = "running"
  /\ Exit("quit", 0)
  /\ UNCHANGED <<fs, stdout, session, Frame>>

KeyShiftQ ==
  /\ pc = "running"
  /\ bailout("shift-q")
  /\ UNCHANGED Frame

KeyEscape ==
  /\ pc = "running"
  /\ bailout("escape")
  /\ UNCHANGED Frame

KeyShiftS ==
  /\ pc = "running"
  /\ done("shift-s")
  /\ UNCHANGED Frame

KeyShiftL ==
  /\ pc = "running"
  /\ exitlist("shift-l")
  /\ UNCHANGED Frame

\* K_SPACE advancing the first file of the list instead of the one at the
\* cursor
KeySpace_first ==
  /\ pc = "running"
  /\ IF current >= Len(filelist)
       THEN /\ Uncaught(Raise("IndexError", NoPath))
            /\ UNCHANGED <<destmap, photos, decodes, rendered>>
     ELSE /\ destmap' = switchdest(destmap, destinations, filelist[1])
          /\ Render(current)
  /\ UNCHANGED <<fs, stdout, filelist, destinations, verbose, crosshair,
                 current, Frame>>

\* K_SPACE: self.filelist[self.current] raises IndexError on an empty list
KeySpace ==
  /\ pc = "running"
  /\ IF current >= Len(filelist)
       THEN /\ Uncaught(Raise("IndexError", NoPath))
            /\ UNCHANGED <<destmap, photos, decodes, rendered>>
     ELSE /\ destmap' = switchdest(destmap, destinations, filelist[current + 1])
          /\ Render(current)
  /\ UNCHANGED <<fs, stdout, filelist, destinations, verbose, crosshair,
                 current, Frame>>

\* K_RIGHT
right(cur) == IF cur < Len(filelist) - 1 THEN cur + 1 ELSE cur

KeyRight ==
  /\ pc = "running"
  /\ current' = right(current)
  /\ Render(current')
  /\ UNCHANGED <<fs, stdout, filelist, destmap, destinations, verbose,
                 crosshair, Frame>>

\* K_LEFT
left(cur) == IF cur > 0 THEN cur - 1 ELSE cur

KeyLeft ==
  /\ pc = "running"
  /\ current' = left(current)
  /\ Render(current')
  /\ UNCHANGED <<fs, stdout, filelist, destmap, destinations, verbose,
                 crosshair, Frame>>

\* a mode that toggles between two values
cycle_two(mode) == (mode + 1) % 2

\* (mode + 1) % 3, the step of self.crosshair and of self.verbose
cycle(mode) == (mode + 1) % 3

\* K_c
KeyC ==
  /\ pc = "running"
  /\ crosshair' = cycle(crosshair)
  /\ Render(current)
  /\ UNCHANGED <<fs, stdout, filelist, destmap, destinations, verbose,
                 current, Frame>>

\* K_v
KeyV ==
  /\ pc = "running"
  /\ verbose' = cycle(verbose)
  /\ Render(current)
  /\ UNCHANGED <<fs, stdout, filelist, destmap, destinations, crosshair,
                 current, Frame>>

\* Any other event: an un-shifted q, s or l, another key, a key release,
\* a mouse event.  Nothing but the render.
OtherEvent ==
  /\ pc = "running"
  /\ Render(current)
  /\ UNCHANGED <<fs, stdout, filelist, destmap, destinations, verbose,
                 crosshair, current, Frame>>

Next ==
  \/ Main
  \/ Quit
  \/ KeyShiftQ
  \/ KeyEscape
  \/ KeyShiftS
  \/ KeyShiftL
  \/ KeySpace
  \/ KeyRight
  \/ KeyLeft
  \/ KeyC
  \/ KeyV
  \/ OtherEvent

Spec == Init /\ [][Next]_vars

\* ------------------------------------------- switchdest, applied alone
\* A second specification for the algebra of switchdest: it starts in any
\* session state (any number of destinations, any tag the event loop can
\* reach on each file) and applies switchdest to any filename, counting
\* the applications per file in `applied` and keeping the tags it started
\* from in `tag0`.
MaxApply == 2 * (MaxDests + 1)

SwitchInit ==
  \E a \in ArgvSet \ {<<>>}, n \in 1..MaxFiles :
    \E t \in [1..n -> 0..(Len(a) - 1)] :
      /\ argv = a
      /\ fs = [d \in Dirs |-> IF d = SrcDir THEN Dir(TRUE, 1..n, SrcDir)
                              ELSE Absent(TRUE)]
      /\ fs0 = fs
      /\ images = 1..n
      /\ pc = "running"
      /\ displayInit = TRUE
      /\ filelist = sort(1..n)
      /\ destmap = t
      /\ destinations = MakeDestinations(SubSeq(a, 2, Len(a)))
      /\ photos = {f \in 1..n : t[f] # 0}
      /\ verbose = 0
      /\ crosshair = 0
      /\ current = 0
      /\ stdout = <<>>
      /\ exitvia = "none"
      /\ exitcode = NotExited
      /\ error = NoError
      /\ applied = [f \in 1..n |-> 0]
      /\ tag0 = t
      /\ decodes = [f \in 1..n |-> IF t[f] # 0 THEN 1 ELSE 0]
      /\ rendered = {f \in 1..n : t[f] # 0}
      /\ surf = <<0, 0>>
      /\ lines = NoLines
      /\ label = NoLabel

ApplySwitchdest ==
  \E fname \in DOMAIN destmap :
    /\ applied[fname] < MaxApply
    /\ destmap' = switchdest(destmap, destinations, fname)
    /\ applied' = [applied EXCEPT ![fname] = @ + 1]
    /\ UNCHANGED <<argv, fs, fs0, images, pc, displayInit, filelist,
                   destinations, photos, verbose, crosshair, current, stdout,
                   exitvia, exitcode, error, tag0, decodes, rendered, canvas>>

SwitchNext == ApplySwitchdest

SwitchSpec == SwitchInit /\ [][SwitchNext]_vars

\* -------------------------------------------------------- properties
Files == {filelist[i] : i \in 1..Len(filelist)}
NumDests == Len(argv) - 1
IndexOf(fname) == CHOOSE i \in 1..Len(filelist) : filelist[i] = fname
DestOf(fname) == destinations[destmap[fname]]

Collision == "OSError: Avoided trashing file"
CommitErrors == {Collision, "OSError: mkdir", "OSError: rename"}

\* the process has ended inside Sorter.done, by its exit or by its raise
Saved == pc = "exited" /\ exitvia = "shift-s"
CommitAborted == pc = "exited" /\ exitvia = "exception" /\ error.kind \in CommitErrors
CommitEnded == Saved \/ CommitAborted
Collided == CommitAborted /\ error.kind = Collision

\* fname is where it was at startup, in the source and in every destination
Untouched(fname) == \A d \in Dirs : fs[d].entries[fname] = fs0[d].entries[fname]

\* fname has gone from the source to its destination directory
Moved(fname) ==
  /\ fs[SrcDir].entries[fname] = "none"
  /\ isdir(fs, DestOf(fname))
  /\ fs[DestOf(fname)].entries[fname] = SrcDir

\* C1: commit never overwrites an existing file.  A file that was in a
\* destination directory at startup is there, the same file, in every
\* state; a commit whose tags name an existing destination path does not
\* end in the success exit but in an uncaught exception with a non-zero
\* status; and the file the exception names is still in the source and
\* the file it would have replaced is still at the destination path.
C1_NeverOverwrites ==
  /\ \A d \in DestNames, f \in FileNames :
       fs0[d].entries[f] # "none" => fs[d].entries[f] = fs0[d].entries[f]
  /\ CommitEnded =>
       \A f \in Files :
         (destmap[f] # 0 /\ exists_file(fs0, DestOf(f), f)) =>
           /\ ~Saved
           /\ exitcode = 1
           /\ error # NoError
           /\ fs[SrcDir].entries[f] = SrcDir
  /\ Collided =>
       /\ exists_file(fs0, error.path[1], error.path[2])
       /\ fs[error.path[1]].entries[error.path[2]] = error.path[1]
       /\ fs[SrcDir].entries[error.path[2]] = SrcDir

\* a commit stopped at a file whose destination path existed: the file
\* there is the one that was there, the source file is still in the source
C1_Witness ==
  /\ Collided
  /\ fs[error.path[1]].entries[error.path[2]] = error.path[1]
  /\ fs[SrcDir].entries[error.path[2]] = SrcDir
  /\ exitcode = 1

\* C2: after a commit that meets no collision, every tagged file is in its
\* destination directory under its own name and gone from the source, the
\* directory exists, and the session has ended by the success exit.
C2_CommitMovesEveryTaggedFile ==
  (CommitEnded /\ ~Collided) =>
    /\ Saved
    /\ exitcode = 0
    /\ \A f \in Files : destmap[f] # 0 => Moved(f)

\* C3: commit never moves a file whose tag is 0: when commit has ended, by
\* its exit or by an exception, every untagged file is in the source
\* directory and in no destination it was not in before.
C3_UntaggedStay ==
  CommitEnded =>
    \A f \in Files :
      destmap[f] = 0 => (fs[SrcDir].entries[f] = SrcDir /\ Untouched(f))

\* a commit that moved a file and left an untagged one behind
C3_Witness ==
  /\ CommitEnded
  /\ \E f \in Files : destmap[f] = 0 /\ fs[SrcDir].entries[f] = SrcDir
  /\ \E g \in Files : destmap[g] # 0 /\ Moved(g)

\* C4: a commit that meets a collision stops at the first colliding file
\* of the file list: every tagged file before it has been moved, it and
\* every file after it are untouched in the source, the file at the
\* colliding path is the one that was there, and the process has ended by
\* an exception with a non-zero status.
C4_AbortsAtFirstCollision ==
  Collided =>
    LET k == IndexOf(error.path[2])
    IN /\ error.path[2] \in Files
       /\ destmap[error.path[2]] # 0
       /\ error.path[1] = DestOf(error.path[2])
       /\ \A i \in 1..(k - 1) :
            destmap[filelist[i]] # 0 =>
              /\ ~exists_file(fs0, DestOf(filelist[i]), filelist[i])
              /\ Moved(filelist[i])
       /\ \A i \in k..Len(filelist) :
            /\ fs[SrcDir].entries[filelist[i]] = SrcDir
            /\ Untouched(filelist[i])
       /\ fs[error.path[1]].entries[error.path[2]]
            = fs0[error.path[1]].entries[error.path[2]]
       /\ fs0[error.path[1]].entries[error.path[2]] # "none"
       /\ exitvia = "exception"
       /\ exitcode # 0

\* a commit that moved the first file and stopped at the second, with
\* the second tagged
C4_Witness ==
  /\ Collided
  /\ Len(filelist) >= 2
  /\ error.path[2] = filelist[2]
  /\ destmap[filelist[1]] # 0
  /\ Moved(filelist[1])
  /\ fs[SrcDir].entries[filelist[2]] = SrcDir

\* C5: list prints one line per tagged file, in file list order, each the
\* path <<destinations[tag], filename>>, nothing for an untagged file, and
\* leaves the filesystem as it was at startup.
TaggedAt == {i \in 1..Len(filelist) : destmap[filelist[i]] # 0}

C5_ListOutput ==
  (pc = "exited" /\ exitvia = "shift-l") =>
    /\ Len(stdout) = Cardinality(TaggedAt)
    /\ \A i \in TaggedAt :
         stdout[Cardinality({j \in TaggedAt : j <= i})]
           = <<argv[1 + destmap[filelist[i]]], filelist[i]>>
    /\ fs = fs0

\* a listing of one tagged file that passed over an untagged one
C5_Witness ==
  /\ pc = "exited"
  /\ exitvia = "shift-l"
  /\ Len(filelist) = 2
  /\ destmap[filelist[1]] = 0
  /\ destmap[filelist[2]] = 2
  /\ stdout = <<<<"Trash", filelist[2]>>>>

\* C6: the abandon key and the window-close event change nothing on disk.
C6_NoSaveExitsKeepDisk ==
  (pc = "exited" /\ exitvia \in {"escape", "shift-q", "quit"}) => fs = fs0

\* an abandoned session in which a file was tagged for a directory that
\* does not exist
C6_Witness ==
  /\ pc = "exited"
  /\ exitvia \in {"escape", "shift-q"}
  /\ \E f \in Files : destmap[f] # 0 /\ ~exists(fs, DestOf(f))

\* C7: switchdest is cyclic: after k applications to a file its tag is
\* (the tag it started from + k) mod (N + 1), N the number of destinations
\* given; so k mod (N + 1) from tag 0, and the starting tag again after
\* N + 1 applications.
C7_SwitchdestCyclic ==
  \A f \in DOMAIN applied :
    /\ destmap[f] = (tag0[f] + applied[f]) % (NumDests + 1)
    /\ tag0[f] = 0 => destmap[f] = applied[f] % (NumDests + 1)
    /\ applied[f] = NumDests + 1 => destmap[f] = tag0[f]

\* a file advanced N + 1 = 3 times from tag 0
C7_Witness ==
  \E f \in DOMAIN applied :
    /\ NumDests = 2
    /\ tag0[f] = 0
    /\ applied[f] = 3
    /\ destmap[f] = 0

\* C8: while the event loop runs, 0 <= current <= len(filelist) - 1.
C8_CursorInRange ==
  pc = "running" => (0 <= current /\ current <= Len(filelist) - 1)

\* C9: the tag map has one entry per file of the file list and every tag
\* is in 0..N; at session start (no event handled yet, so nothing rendered)
\* every tag is 0.
C9_TagMapWellFormed ==
  pc # "start" =>
    /\ DOMAIN destmap = Files
    /\ \A f \in Files : destmap[f] \in 0..NumDests
    /\ (pc = "running" /\ photos = {}) => \A f \in Files : destmap[f] = 0

\* a session with every file at the last tag
C9_Witness ==
  /\ pc = "running"
  /\ Len(filelist) = 2
  /\ NumDests = 2
  /\ \A f \in Files : destmap[f] = 2

\* C10: a usage error and the abandon key exit non-zero; a save or a list
\* that completes exits zero.
C10_ExitCodes ==
  /\ (pc = "exited") <=> (exitcode # NotExited)
  /\ exitvia = "usage" => exitcode \notin {0, NotExited}
  /\ exitvia \in {"escape", "shift-q"} => exitcode \notin {0, NotExited}
  /\ exitvia \in {"shift-s", "shift-l"} => exitcode = 0

\* the abandon key pressed after tagging
C10_Witness ==
  /\ exitvia = "escape"
  /\ exitcode = 1
  /\ \E f \in Files : destmap[f] # 0

\* C11: a command line without the source, or with the source and no
\* destination, prints the usage text and exits non-zero without starting
\* a session.
C11_MissingArgsUsage ==
  (pc # "start" /\ Len(argv) < 2) =>
    /\ pc = "exited"
    /\ exitvia = "usage"
    /\ exitcode \notin {0, NotExited}
    /\ stdout = <<<<"USAGE", 0>>>>
    /\ ~displayInit

PreflightErrors == {"OSError: Not a directory", "OSError: Not writeable"}

\* d existed at startup and is not a directory, or not writable and
\* traversable
BadDest(d) == exists(fs0, d) /\ (~isdir(fs0, d) \/ ~access(fs0, d))

C13_ConfigErrorsBeforeDisplay ==
  (pc # "start" /\ (Len(argv) < 2 \/ \E i \in 2..Len(argv) : BadDest(argv[i])))
    => (pc = "exited" /\ exitcode \notin {0, NotExited} /\ ~displayInit)

\* an event of the loop of Sorter.go other than the Space key
NotSpaceEvent ==
  \/ Quit
  \/ KeyShiftQ
  \/ KeyEscape
  \/ KeyShiftS
  \/ KeyShiftL
  \/ KeyRight
  \/ KeyLeft
  \/ KeyC
  \/ KeyV
  \/ OtherEvent

\* C14: only the Space key changes the tag map, and only the entry of the
\* file at the cursor, which becomes (tag + 1) mod (N + 1) (a different
\* tag when there is a destination); every other event leaves the whole
\* map as it was: a step that changes the map is a step of the Space key
\* and of no other event.
C14_OnlySpaceTags ==
  [][pc = "running" =>
       /\ (KeySpace /\ current < Len(filelist)) =>
            /\ \A f \in Files :
                 destmap'[f] = IF f = filelist[current + 1]
                                 THEN (destmap[f] + 1) % (NumDests + 1)
                               ELSE destmap[f]
            /\ NumDests >= 1 =>
                 destmap'[filelist[current + 1]] # destmap[filelist[current + 1]]
       /\ destmap' # destmap => (KeySpace /\ ~NotSpaceEvent)]_vars

\* Space pressed with the cursor on the second file: its tag alone changed
C14_Witness ==
  /\ pc = "running"
  /\ Len(filelist) = 2
  /\ current = 1
  /\ destmap[filelist[1]] = 0
  /\ destmap[filelist[2]] = 1

\* C15: the two display modes are independent 3-cycles.  Both are in
\* {0, 1, 2}, 0 until the first event, and three steps bring a mode back;
\* a C key event sets crosshair to (crosshair + 1) mod 3 and leaves verbose,
\* cursor and tag map alone, a V key event likewise for verbose, and no
\* other event changes either mode.
C15_ModeCycles ==
  /\ [](/\ verbose \in {0, 1, 2}
        /\ crosshair \in {0, 1, 2}
        /\ (pc = "start" \/ (pc = "running" /\ rendered = {})) =>
             (verbose = 0 /\ crosshair = 0)
        /\ cycle(cycle(cycle(crosshair))) = crosshair
        /\ cycle(cycle(cycle(verbose))) = verbose)
  /\ [][pc = "running" =>
          /\ KeyC => /\ crosshair' = (crosshair + 1) % 3
                     /\ verbose' = verbose
                     /\ current' = current
                     /\ destmap' = destmap
          /\ KeyV => /\ verbose' = (verbose + 1) % 3
                     /\ crosshair' = crosshair
                     /\ current' = current
                     /\ destmap' = destmap
          /\ crosshair' # crosshair => KeyC
          /\ verbose' # verbose => KeyV]_vars

\* C pressed twice and V once
C15_Witness ==
  /\ pc = "running"
  /\ crosshair = 2
  /\ verbose = 1

\* C16: the image cache is filled lazily and decodes a file at most once.
\* Nothing is cached before the first event; the cached files are exactly
\* the files a frame was drawn of, the file at the cursor among them once
\* an event was handled; pygame.image.load ran once on each cached file
\* and at most once on any file (a file it ran on that is not cached is
\* the one whose decoding ended the process); no entry is ever removed.
C16_LazyCache ==
  /\ [](/\ pc = "start" => photos = {}
        /\ pc # "start" =>
             /\ photos = rendered
             /\ (pc = "running" /\ rendered # {}) =>
                  filelist[current + 1] \in photos
             /\ \A f \in Files :
                  /\ decodes[f] <= 1
                  /\ f \in photos => decodes[f] = 1
                  /\ (decodes[f] = 1 /\ f \notin photos) =>
                       /\ pc = "exited"
                       /\ error = Raise("pygame.error", <<SrcDir, f>>))
  /\ [][photos \subseteq photos']_vars

\* both files cached, the cursor back on the first: its second render
\* decoded nothing
C16_Witness ==
  /\ pc = "running"
  /\ Len(filelist) = 2
  /\ current = 0
  /\ photos = {filelist[1], filelist[2]}
  /\ decodes[filelist[1]] = 1

\* C17: a file that cannot be decoded ends the session and changes nothing
\* on disk.  Only decodable files are ever cached or drawn; a running loop
\* that has drawn a frame has a decodable file at the cursor; a failed
\* decoding leaves the process ended by pygame.error with status 1, the
\* filesystem as at startup and nothing listed.
C17_DecodeFailureFatal ==
  /\ pc # "start" =>
       /\ photos \subseteq images
       /\ rendered \subseteq images
       /\ \A f \in Files :
            (decodes[f] >= 1 /\ f \notin images) =>
              /\ pc = "exited"
              /\ error = Raise("pygame.error", <<SrcDir, f>>)
  /\ (pc = "running" /\ rendered # {}) => filelist[current + 1] \in images
  /\ error.kind = "pygame.error" =>
       /\ pc = "exited"
       /\ exitvia = "exception"
       /\ exitcode = 1
       /\ error.path[2] = filelist[current + 1]
       /\ error.path[2] \notin images
       /\ fs = fs0
       /\ stdout = <<>>

\* the decoding failed after a file had been tagged for a directory that
\* does not exist
C17_Witness ==
  /\ error.kind = "pygame.error"
  /\ \E f \in Files : destmap[f] # 0 /\ ~exists(fs, DestOf(f))
  /\ fs = fs0

\* ------------------------------------------- a session, for the frame
\* The session state after __init__ on a source directory of n decodable
\* files with the command line a, the tags t, and one event handled.
InSession(a, n, t) ==
  /\ argv = a
  /\ fs = [d \in Dirs |-> IF d = SrcDir THEN Dir(TRUE, 1..n, SrcDir)
                          ELSE Absent(TRUE)]
  /\ fs0 = fs
  /\ images = 1..n
  /\ pc = "running"
  /\ displayInit = TRUE
  /\ filelist = sort(1..n)
  /\ destmap = t
  /\ destinations = MakeDestinations(SubSeq(a, 2, Len(a)))
  /\ photos = {1}
  /\ verbose = 0
  /\ current = 0
  /\ stdout = <<>>
  /\ exitvia = "none"
  /\ exitcode = NotExited
  /\ error = NoError
  /\ applied = [f \in 1..n |-> 0]
  /\ tag0 = t
  /\ decodes = [f \in 1..n |-> IF f = 1 THEN 1 ELSE 0]
  /\ rendered = {1}

\* ------------------------------------------------------- crosshair()
WHITE == <<255, 255, 255>>
BLACK == <<0, 0, 0>>

\* pygame.gfxdraw.hline(surf, 0, sx, y, color): the pixel rows it paints.
\* SDL_gfx clips to the surface: a row outside 0..sy-1 paints nothing.
hline(s, y) == IF y \in 0..(s[2] - 1) THEN {y} ELSE {}

\* pygame.gfxdraw.vline(surf, x, 0, sy, color): the pixel columns it paints
vline(s, x) == IF x \in 0..(s[1] - 1) THEN {x} ELSE {}

\* crosshair(surf, color): ys and xs are the coordinates handed to hline
\* and vline, rows and cols the pixel rows and columns painted.  The
\* division is Python 2's integer division.
draw_crosshair(s, color) ==
  LET sx == s[1]
      sy == s[2]
  IN [ys |-> {sy \div 2} \cup (IF sy % 2 = 0 THEN {(sy \div 2) + 1} ELSE {}),
      xs |-> {sx \div 2} \cup (IF sx % 2 = 0 THEN {(sx \div 2) + 1} ELSE {}),
      rows |-> hline(s, sy \div 2)
                 \cup (IF sy % 2 = 0 THEN hline(s, (sy \div 2) + 1) ELSE {}),
      cols |-> vline(s, sx \div 2)
                 \cup (IF sx % 2 = 0 THEN vline(s, (sx \div 2) + 1) ELSE {}),
      color |-> color]

\* A session on a display surface of any size up to MaxDim x MaxDim, in
\* any crosshair mode, before the frame is drawn.
CrossInit ==
  \E sx \in 1..MaxDim, sy \in 1..MaxDim, mode \in {0, 1, 2} :
    /\ InSession(<<SrcDir, "Keep">>, 1, <<0>>)
    /\ crosshair = mode
    /\ surf = <<sx, sy>>
    /\ lines = NoLines
    /\ label = NoLabel

\* Sorter.display, lines 161-164
DrawCrosshair ==
  /\ pc = "running"
  /\ lines' = IF crosshair = 1 THEN draw_crosshair(surf, WHITE)
              ELSE IF crosshair = 2 THEN draw_crosshair(surf, BLACK)
              ELSE NoLines
  /\ UNCHANGED <<argv, fs, fs0, images, pc, displayInit, session, stdout,
                 exitvia, exitcode, error, history, surf, label>>

CrossNext == DrawCrosshair

CrossSpec == CrossInit /\ [][CrossNext]_vars

\* ------------------------------------------------------- the tag label
\* destcolors, lines 58-66 (Python index i is position i + 1 here)
basecolors ==
  << <<0, 0, 0>>,
     <<255, 0, 0>>, <<0, 255, 0>>, <<0, 0, 255>>,
     <<255, 255, 0>>, <<255, 0, 255>>, <<0, 255, 255>>,
     <<255, 128, 0>>, <<128, 96, 0>>,
     <<0, 255, 128>>, <<0, 128, 255>>,
     <<128, 0, 255>>, <<192, 0, 128>>,
     <<128, 255, 0>>,
     <<192, 192, 192>>, <<128, 128, 128>>, <<64, 64, 64>>,
     <<0, 0, 0>>, <<255, 255, 255>> >>

\* destcolors += destcolors
destcolors == basecolors \o basecolors

\* Sorter.display, lines 155-159: the label drawn for a tag, or the
\* IndexError of destcolors[tag]
tag_label(dests, tag) ==
  IF tag # 0
    THEN IF tag >= Len(destcolors)
           THEN [label |-> NoLabel, err |-> Raise("IndexError", NoPath)]
         ELSE [label |-> [text |-> dests[tag], color |-> destcolors[tag + 1]],
               err |-> NoError]
  ELSE [label |-> NoLabel, err |-> NoError]

\* A session with N destinations, N up to MaxLabelDests, and one file with
\* any tag 0..N, before the frame is drawn.
LabelInit ==
  \E N \in 0..MaxLabelDests :
    \E tag \in 0..N :
      /\ InSession(<<SrcDir>> \o [i \in 1..N |-> "Keep"], 1, <<tag>>)
      /\ crosshair = 0
      /\ surf = <<0, 0>>
      /\ lines = NoLines
      /\ label = NoLabel

\* Sorter.display, lines 155-159, on the file at the cursor
DrawLabel ==
  /\ pc = "running"
  /\ LET r == tag_label(destinations, destmap[filelist[current + 1]])
     IN /\ label' = r.label
        /\ IF r.err = NoError
             THEN UNCHANGED <<pc, exitvia, exitcode, error>>
           ELSE Uncaught(r.err)
  /\ UNCHANGED <<argv, fs, fs0, images, displayInit, session, stdout,
                 history, surf, lines>>

LabelNext == DrawLabel

LabelSpec == LabelInit /\ [][LabelNext]_vars

\* the crosshair has been drawn
CrossDrawn == lines # NoLines

\* C18: the horizontal crosshair occupies exactly two adjacent pixel rows
\* of a surface of even height and exactly one row of a surface of odd
\* height; the vertical crosshair likewise, in columns, for the width.
C18_CrosshairDoubling ==
  CrossDrawn =>
    /\ IF surf[2] % 2 = 0
         THEN \E y \in 0..(surf[2] - 2) : lines.rows = {y, y + 1}
       ELSE \E y \in 0..(surf[2] - 1) : lines.rows = {y}
    /\ IF surf[1] % 2 = 0
         THEN \E x \in 0..(surf[1] - 2) : lines.cols = {x, x + 1}
       ELSE \E x \in 0..(surf[1] - 1) : lines.cols = {x}

\* the smallest and the largest element of a set of numbers
Lo(S) == CHOOSE x \in S : \A y \in S : x <= y
Hi(S) == CHOOSE x \in S : \A y \in S : x >= y

\* C19: the crosshair goes through the exact centre: the rows handed to
\* hline lie in 0..H-1 with as many pixel rows above them as below, and
\* the columns handed to vline lie in 0..W-1 with as many columns left of
\* them as right.
C19_CrosshairCentred ==
  CrossDrawn =>
    /\ lines.ys \subseteq 0..(surf[2] - 1)
    /\ Lo(lines.ys) = (surf[2] - 1) - Hi(lines.ys)
    /\ lines.xs \subseteq 0..(surf[1] - 1)
    /\ Lo(lines.xs) = (surf[1] - 1) - Hi(lines.xs)

\* C20: the label of a file with tag i in 1..N is the name of destination
\* i in the palette colour of i, the palette being reused cyclically by
\* its length, so the lookup never fails; the colours of the indices 1 up
\* to the palette length are pairwise distinct; tag 0 gets no label.
C20_LabelColours ==
  LET tag == destmap[filelist[current + 1]]
      n == Len(basecolors)
  IN /\ error.kind # "IndexError"
     /\ tag = 0 => label = NoLabel
     /\ label # NoLabel =>
          /\ tag \in 1..NumDests
          /\ label.text = argv[1 + tag]
          /\ label.color = basecolors[(tag % n) + 1]
     /\ \A i, j \in 1..(n - 1) : i # j => basecolors[i + 1] # basecolors[j + 1]

====
